---- MODULE Spec2Model ----
(***************************************************************************)
(* Fully dynamic decision tree (src/Tree.py over src/PointSet.py).         *)
(*                                                                         *)
(* A Tree object is a record; a PointSet is a record of its feature rows,  *)
(* its labels and its types.  Python floats are modelled by exact          *)
(* rationals <<numerator, denominator>>; feature values are naturals and   *)
(* split values are kept in half units (twice the value) so that the       *)
(* midpoints (a + b) / 2 of PointSet.get_best_gain are integers.           *)
(* A raised Python exception is the name of its class in the field         *)
(* "raised" of an operation's result ("" when the call returns).           *)
(***************************************************************************)
EXTENDS Integers, Sequences, FiniteSets, TLC

\* ------------------------------------------------------------------ bounds
\* largest number of training points handed to the constructor
MaxPoints == 2

\* ------------------------------------------------------- program constants
\* FeaturesTypes (PointSet.py:5-10)
FT_BOOLEAN == 0
FT_CLASSES == 1
FT_REAL == 2

\* Python's None, for the integer-valued attributes (feature_id,
\* feature_threshold, split_feature, split_value)
None == -1

\* ------------------------------------------------------------ input sets
\* one feature column of each kind
TypeVectors == {<<FT_BOOLEAN>>, <<FT_CLASSES>>, <<FT_REAL>>}

\* the values a feature of the given kind takes in the inputs
FeatureValues(type) == IF type = FT_BOOLEAN THEN {0, 1} ELSE {0, 1, 2}

\* the feature rows that fit a vector of types
Rows(types) == {r \in [1..Len(types) -> 0..2] :
                  \A p \in 1..Len(types) : r[p] \in FeatureValues(types[p])}

\* beta, a float >= 0, as <<numerator, denominator>>: 0 (the default) and 3/2
Betas == {<<0, 1>>, <<3, 2>>}

\* configured heights and min_split_points of a well-formed construction
Heights == {0, 1}
MinSplits == {1, 2}

\* ill-formed configuration values (a negative height, min_split_points < 1)
BadHeights == {0 - 1}
BadMinSplits == {0}

SeqsUpTo(S, n) == UNION {[1..k -> S] : k \in 0..n}

\* ------------------------------------------------------------- rationals
\* a float is the exact rational <<numerator, denominator>>, denominator > 0
RatSub(x, y) == <<x[1] * y[2] - y[1] * x[2], x[2] * y[2]>>
RatGt(x, y) == x[1] * y[2] > y[1] * x[2]
RatEq(x, y) == x[1] * y[2] = y[1] * x[2]
RatZero == <<0, 1>>

\* 1 - (t/(t+f))**2 - (f/(t+f))**2, the Gini score of t true and f false labels
GiniOf(t, f) == <<(t + f) * (t + f) - t * t - f * f, (t + f) * (t + f)>>

\* (size1 * gini1 + size2 * gini2) / n
Weighted(size1, gini1, size2, gini2, n) ==
    <<size1 * gini1[1] * gini2[2] + size2 * gini2[1] * gini1[2],
      gini1[2] * gini2[2] * n>>

\* twice a feature value: the unit of split values
Half(x) == 2 * x

\* ------------------------------------------------------------- PointSet
\* PointSet.__init__
PointSet(features, labels, types) ==
    [features |-> features, labels |-> labels, types |-> types,
     split_feature |-> None, split_value |-> None]

\* number of indices of idx whose label is want
CountLabel(labels, idx, want) == Cardinality({k \in idx : labels[k] = want})

\* PointSet.get_gini: 1 - (n1/n)**2 - (n2/n)**2 over all the labels
get_gini(P) ==
    GiniOf(CountLabel(P.labels, 1..Len(P.labels), TRUE),
           CountLabel(P.labels, 1..Len(P.labels), FALSE))

\* the rows of P that gini_split puts in its first group, for feature p
\* (1-based) and split value in half units
FirstGroup(P, p, value) ==
    {i \in 1..Len(P.features) :
        CASE P.types[p] = FT_BOOLEAN -> P.features[i][p] # 0
          [] P.types[p] = FT_CLASSES -> Half(P.features[i][p]) = value
          [] P.types[p] = FT_REAL -> Half(P.features[i][p]) < value}

\* the end of gini_split, from the four counts n1..n4 of the two groups
GiniSplitOf(n, n_labels, n1, n2, n3, n4, min_split_points) ==
    IF n_labels < n
    THEN [raised |-> "IndexError", none |-> TRUE, value |-> RatZero]
    ELSE IF \/ n1 + n3 = 0 \/ n2 + n4 = 0
            \/ n1 + n3 < min_split_points \/ n2 + n4 < min_split_points
    THEN [raised |-> "", none |-> TRUE, value |-> RatZero]
    ELSE [raised |-> "", none |-> FALSE,
          value |-> Weighted(n1 + n3, GiniOf(n1, n3), n2 + n4, GiniOf(n2, n4), n)]

\* PointSet.gini_split: [raised, none, value]; none is Python's None result.
\* labels[k] of a row without label raises IndexError
gini_split(P, p, value, min_split_points) ==
    GiniSplitOf(Len(P.features), Len(P.labels),
                CountLabel(P.labels, FirstGroup(P, p, value), TRUE),
                CountLabel(P.labels, (1..Len(P.features)) \ FirstGroup(P, p, value), TRUE),
                CountLabel(P.labels, FirstGroup(P, p, value), FALSE),
                CountLabel(P.labels, (1..Len(P.features)) \ FirstGroup(P, p, value), FALSE),
                min_split_points)

\* a finite set of integers as the ascending sequence of its elements
RECURSIVE Sorted(_)
Sorted(S) ==
    IF S = {} THEN <<>>
    ELSE LET m == CHOOSE x \in S : \A y \in S : x <= y
         IN <<m>> \o Sorted(S \ {m})

\* np.unique of column p, ascending
Unique(P, p) == Sorted({P.features[i][p] : i \in 1..Len(P.features)})

\* the candidate split values of feature p in enumeration order, half units
SplitValues(P, p) ==
    LET values == Unique(P, p)
    IN CASE P.types[p] = FT_BOOLEAN -> <<None>>
         [] P.types[p] = FT_REAL ->
              [i \in 1..(Len(values) - 1) |-> values[i] + values[i + 1]]
         [] P.types[p] = FT_CLASSES -> [i \in 1..Len(values) |-> Half(values[i])]

\* every candidate <<p, v>> in the order the two loops visit them
RECURSIVE Candidates(_, _)
Candidates(P, p) ==
    IF p > Len(P.types) THEN <<>>
    ELSE [i \in 1..Len(SplitValues(P, p)) |-> <<p, SplitValues(P, p)[i]>>]
         \o Candidates(P, p + 1)

\* what the inner loop computes for candidate c = <<p, v>> before the
\* comparison: gs = gini_split(p, v) and, unless None, get_gini() - gs
GainOf(P, c, gs) ==
    [raised |-> gs.raised, none |-> gs.none, p |-> c[1], v |-> c[2],
     gain |-> IF gs.none THEN RatZero ELSE RatSub(get_gini(P), gs.value)]

GainsOf(P, cands, min_split_points) ==
    [k \in 1..Len(cands) |->
        GainOf(P, cands[k], gini_split(P, cands[k][1], cands[k][2], min_split_points))]

\* the comparison "if gain > max[1]" and the update of max, split_value and
\* split_feature, for candidate g on the running maximum
GainStep(best, g) ==
    IF ~g.none /\ RatGt(g.gain, best.gain)
    THEN [best EXCEPT !.feature_id = g.p - 1, !.gain = g.gain,
                      !.split_value = g.v, !.split_feature = g.p - 1]
    ELSE best

\* the two nested loops, candidate k onwards
RECURSIVE GainLoop(_, _, _)
GainLoop(gains, k, best) ==
    IF k > Len(gains) THEN best
    ELSE IF gains[k].raised # "" THEN [best EXCEPT !.raised = gains[k].raised]
    ELSE GainLoop(gains, k + 1, GainStep(best, gains[k]))

\* max = None, 0.0 and the split the PointSet has recorded so far
GainStart(P) ==
    [raised |-> "", feature_id |-> None, gain |-> RatZero,
     split_value |-> P.split_value, split_feature |-> P.split_feature]

\* the end of get_best_gain: "if max[1] == 0.0: return None, None"
GainResult(P, best) ==
    [raised |-> best.raised,
     feature_id |-> IF best.raised # "" \/ RatEq(best.gain, RatZero)
                    THEN None ELSE best.feature_id,
     gain |-> IF best.raised # "" THEN RatZero ELSE best.gain,
     points |-> [P EXCEPT !.split_value = best.split_value,
                          !.split_feature = best.split_feature]]

\* PointSet.get_best_gain: [raised, feature_id, gain, points]; feature_id is
\* the 0-based index or None, points is the PointSet with the recorded split.
\* self.features[:, p] of an empty array raises IndexError
get_best_gain(P, min_split_points) ==
    GainResult(P, IF Len(P.features) = 0 /\ Len(P.types) > 0
                  THEN [GainStart(P) EXCEPT !.raised = "IndexError"]
                  ELSE GainLoop(GainsOf(P, Candidates(P, 1), min_split_points), 1,
                                GainStart(P)))

\* PointSet.get_best_threshold: [raised, value]
get_best_threshold(P) ==
    IF P.split_feature = None
    THEN [raised |-> "ValueError", value |-> None]
    ELSE [raised |-> "", value |-> P.split_value]

\* ----------------------------------------------------------------- Tree
\* RebuildDue with ">" for ">=": a counter that equals the threshold waits
RebuildDueStrict(self) ==
    self.counter * self.beta[2] > self.beta[1] * Len(self.points.features)

\* the rebuild test of add_training_point and del_training_point:
\* self.counter >= self.beta * len(self.points.features)
RebuildDue(self) ==
    self.counter * self.beta[2] >= self.beta[1] * Len(self.points.features)

\* UpdatesPoints without the leaf test: every visited node is updated
UpdatesPointsAlways(self) == TRUE

\* the guard of the collection update: "only if the tree is not a leaf"
UpdatesPoints(self) == self.h > 0

\* the left branch of the stored split takes the point (decide, add, del)
GoesLeft(self, features) ==
    IF self.feature_split = <<>>
    THEN Half(features[self.feature_id + 1]) < self.feature_threshold
    ELSE Half(features[self.feature_id + 1]) \in self.feature_split[1]

\* Majority with a tie resolved to false
MajorityStrict(labels) ==
    2 * CountLabel(labels, 1..Len(labels), TRUE) > Len(labels)

\* the leaf's answer: count_nonzero(labels) >= len(labels) / 2
Majority(labels) ==
    2 * CountLabel(labels, 1..Len(labels), TRUE) >= Len(labels)

\* the categorical or boolean split of build_tree, in half units:
\* ([threshold], the other observed values), or ([0], [1]) without threshold
SplitOf(P, feature_id, threshold) ==
    IF threshold # None
    THEN <<{threshold},
           {Half(P.features[i][feature_id + 1]) : i \in 1..Len(P.features)}
              \ {threshold}>>
    ELSE <<{Half(0)}, {Half(1)}>>

\* build_tree from the stored split on, for the split value threshold:
\* self.feature_split or self.feature_threshold, then self.feature_id, then
\* "right_features, right_labels = []", which raises ValueError before any
\* point is partitioned or any child built
StoreSplit(self, feature_id, threshold) ==
    [self |-> IF self.points.types[feature_id + 1] # FT_REAL
              THEN [self EXCEPT
                      !.feature_split = SplitOf(self.points, feature_id, threshold),
                      !.feature_id = feature_id]
              ELSE [self EXCEPT !.feature_threshold = threshold,
                                !.feature_id = feature_id],
     raised |-> "ValueError"]

\* build_tree after the search bg = self.points.get_best_gain(...)
AfterSearch(self, bg) ==
    IF bg.raised # "" THEN [self |-> [self EXCEPT !.points = bg.points],
                            raised |-> bg.raised]
    ELSE IF bg.feature_id = None
    THEN [self |-> [self EXCEPT !.points = bg.points, !.h = 0], raised |-> ""]
    ELSE StoreSplit([self EXCEPT !.points = bg.points], bg.feature_id,
                    get_best_threshold(bg.points).value)

\* Tree.build_tree: [self, raised]
build_tree(self) ==
    IF self.h = 0 THEN [self |-> self, raised |-> ""]
    ELSE AfterSearch(self, get_best_gain(self.points, self.min_split_points))

\* Tree.__init__: [self, raised]
Tree(features, labels, types, h, min_split_points, beta) ==
    build_tree([h |-> h, feature_id |-> None, feature_threshold |-> None,
                feature_split |-> <<>>,
                points |-> PointSet(features, labels, types),
                min_split_points |-> min_split_points, counter |-> 0,
                beta |-> beta, children |-> <<>>])

\* Tree.decide
RECURSIVE decide(_, _)
decide(self, features) ==
    IF self.h = 0 THEN Majority(self.points.labels)
    ELSE IF GoesLeft(self, features) THEN decide(self.children[1], features)
    ELSE decide(self.children[2], features)

\* the index (1-based) of the first row equal to features, 0 when none
FirstMatch(P, features) ==
    IF \A i \in 1..Len(P.features) : P.features[i] # features THEN 0
    ELSE CHOOSE i \in 1..Len(P.features) :
            /\ P.features[i] = features
            /\ \A j \in 1..(i - 1) : P.features[j] # features

\* np.delete of one index
Without(s, k) == [i \in 1..(Len(s) - 1) |-> IF i < k THEN s[i] ELSE s[i + 1]]

\* the outcome of a call that returns before the rebuild test or at a leaf
Returned(self) ==
    [self |-> self, raised |-> "", rebuilt |-> FALSE, recursed |-> FALSE]

\* the outcome of "self.counter = 0; self.build_tree(); return", b the result
\* of that build_tree
Rebuilt(b) ==
    [self |-> b.self, raised |-> b.raised, rebuilt |-> TRUE, recursed |-> FALSE]

\* the outcome of a call that handed the point to the child on side, sub the
\* result of the call on the child
Recursed(self, side, sub) ==
    [self |-> [self EXCEPT !.children[side] = sub.self], raised |-> sub.raised,
     rebuilt |-> FALSE, recursed |-> TRUE]

\* "self.counter += 1"
Counted(self) == [self EXCEPT !.counter = self.counter + 1]

\* Added without the leaf test: a leaf appends the point too
AddedAtLeafToo(self, features, label) ==
    [self EXCEPT !.points = PointSet(Append(self.points.features, features),
                                     Append(self.points.labels, label),
                                     self.points.types)]

\* the collection update of add_training_point
Added(self, features, label) ==
    IF UpdatesPoints(self)
    THEN [self EXCEPT !.points = PointSet(Append(self.points.features, features),
                                          Append(self.points.labels, label),
                                          self.points.types)]
    ELSE self

\* Removed without the leaf test: a leaf drops its first match too
RemovedAtLeafToo(self, k) ==
    IF k = 0 THEN self
    ELSE [self EXCEPT !.points = PointSet(Without(self.points.features, k),
                                          Without(self.points.labels, k),
                                          self.points.types)]

\* the collection update of del_training_point, k the index of the match
Removed(self, k) ==
    IF UpdatesPoints(self)
    THEN [self EXCEPT !.points = PointSet(Without(self.points.features, k),
                                          Without(self.points.labels, k),
                                          self.points.types)]
    ELSE self

RECURSIVE add_training_point(_, _, _)
RECURSIVE del_training_point(_, _, _)

\* AddRest without "self.counter = 0" before the rebuild
AddRestKeepsCounter(self, features, label) ==
    IF RebuildDue(self) THEN Rebuilt(build_tree(self))
    ELSE IF self.h = 0 THEN Returned(self)
    ELSE IF GoesLeft(self, features)
    THEN Recursed(self, 1, add_training_point(self.children[1], features, label))
    ELSE Recursed(self, 2, add_training_point(self.children[2], features, label))

\* add_training_point from the rebuild test on
AddRest(self, features, label) ==
    IF RebuildDue(self) THEN Rebuilt(build_tree([self EXCEPT !.counter = 0]))
    ELSE IF self.h = 0 THEN Returned(self)
    ELSE IF GoesLeft(self, features)
    THEN Recursed(self, 1, add_training_point(self.children[1], features, label))
    ELSE Recursed(self, 2, add_training_point(self.children[2], features, label))

\* Tree.add_training_point: [self, raised, rebuilt, recursed]
add_training_point(self, features, label) ==
    AddRest(Added(Counted(self), features, label), features, label)

\* del_training_point from the rebuild test on
DelRest(self, features, label) ==
    IF RebuildDue(self) THEN Rebuilt(build_tree([self EXCEPT !.counter = 0]))
    ELSE IF self.h = 0 THEN Returned(self)
    ELSE IF GoesLeft(self, features)
    THEN Recursed(self, 1, del_training_point(self.children[1], features, label))
    ELSE Recursed(self, 2, del_training_point(self.children[2], features, label))

\* Tree.del_training_point: [self, raised, rebuilt, recursed]
del_training_point(self, features, label) ==
    IF UpdatesPoints(self) /\ FirstMatch(self.points, features) = 0
    THEN Returned(Counted(self))
    ELSE DelRest(Removed(Counted(self), FirstMatch(self.points, features)),
                 features, label)

\* ------------------------------------------------------- state machine
\* cfg    the arguments of the constructor call Tree(...), as main.py makes it
\* phase  "new" before the call, "built" once it returned, "failed" once it
\*        raised, "crashed" once a later call on the tree raised
\* tree   <<the root Tree object>>, or <<>> while the caller holds no tree
\* last   the latest call: its name, arguments, result, whether the root
\*        rebuilt or recursed into a child, what it raised, the tree before it
\* undo   <<the tree before an insert>> when the latest two calls are that
\*        insert and a delete of the same point and label, else <<>>
VARIABLES cfg, phase, tree, last, undo

vars == <<cfg, phase, tree, last, undo>>

Root == tree[1]

Config(types, features, labels, h, min_split_points, beta) ==
    [features |-> features, labels |-> labels, types |-> types, h |-> h,
     min_split_points |-> min_split_points, beta |-> beta]

\* the configurations the documentation of Tree.__init__ allows
GoodConfigs ==
    UNION {UNION {{Config(types, features, labels, h, m, beta) :
                      labels \in [1..Len(features) -> BOOLEAN],
                      h \in Heights, m \in MinSplits, beta \in Betas} :
                  features \in SeqsUpTo(Rows(types), MaxPoints)} :
           types \in TypeVectors}

\* those and the ill-formed ones: any number of labels, a negative height,
\* min_split_points < 1
AnyConfigs ==
    UNION {{Config(types, features, labels, h, m, <<0, 1>>) :
               features \in SeqsUpTo(Rows(types), MaxPoints),
               labels \in SeqsUpTo(BOOLEAN, MaxPoints),
               h \in Heights \cup BadHeights, m \in MinSplits \cup BadMinSplits} :
           types \in TypeVectors}

WellFormed(c) ==
    /\ Len(c.labels) = Len(c.features)
    /\ c.h >= 0
    /\ c.min_split_points >= 1

NoCall == [op |-> "none", features |-> <<>>, label |-> FALSE, ret |-> FALSE,
           rebuilt |-> FALSE, recursed |-> FALSE, raised |-> "", pre |-> <<>>]

Init ==
    /\ cfg \in GoodConfigs
    /\ phase = "new"
    /\ tree = <<>>
    /\ last = NoCall
    /\ undo = <<>>

InitAny ==
    /\ cfg \in AnyConfigs
    /\ phase = "new"
    /\ tree = <<>>
    /\ last = NoCall
    /\ undo = <<>>

\* the caller's state after the constructor call with result t
Constructed(t) ==
    /\ phase' = IF t.raised = "" THEN "built" ELSE "failed"
    /\ tree' = IF t.raised = "" THEN <<t.self>> ELSE <<>>
    /\ last' = [NoCall EXCEPT !.op = "init", !.raised = t.raised]

\* main.py:18  current_tree = Tree(features, labels, types, **tree_params)
Construct ==
    /\ phase = "new"
    /\ Constructed(Tree(cfg.features, cfg.labels, cfg.types, cfg.h,
                        cfg.min_split_points, cfg.beta))
    /\ UNCHANGED <<cfg, undo>>

\* main.py:28,37  current_tree.decide(point_features)
Decide ==
    /\ phase = "built"
    /\ \E features \in Rows(cfg.types) :
          last' = [NoCall EXCEPT !.op = "decide", !.features = features,
                                 !.ret = decide(Root, features), !.pre = tree]
    /\ UNCHANGED <<cfg, phase, tree, undo>>

\* the caller's state after the call op(features, label) with result r
Called(op, features, label, r) ==
    /\ tree' = <<r.self>>
    /\ phase' = IF r.raised = "" THEN "built" ELSE "crashed"
    /\ last' = [op |-> op, features |-> features, label |-> label,
                ret |-> FALSE, rebuilt |-> r.rebuilt, recursed |-> r.recursed,
                raised |-> r.raised, pre |-> tree]

\* main.py:31  current_tree.add_training_point(point_features, point_label)
AddTrainingPoint ==
    /\ phase = "built"
    /\ \E features \in Rows(cfg.types), label \in BOOLEAN :
          Called("add", features, label, add_training_point(Root, features, label))
    /\ undo' = <<>>
    /\ UNCHANGED cfg

\* main.py:33  current_tree.del_training_point(del_point_feat, del_point_lab)
DelTrainingPoint ==
    /\ phase = "built"
    /\ \E features \in Rows(cfg.types), label \in BOOLEAN :
          /\ Called("del", features, label, del_training_point(Root, features, label))
          /\ undo' = IF /\ last.op = "add" /\ last.features = features
                        /\ last.label = label
                     THEN <<[pre |-> last.pre[1], rebuilt |-> last.rebuilt]>>
                     ELSE <<>>
    /\ UNCHANGED cfg

Next == Construct \/ Decide \/ AddTrainingPoint \/ DelTrainingPoint

Spec == Init /\ [][Next]_vars

\* construction from any configuration, and queries on what it built
NextAny == Construct \/ Decide

SpecAny == InitAny /\ [][NextAny]_vars

\* -------------------------------------------- the PointSet on its own
\* get_best_gain and get_best_threshold called on a PointSet of two feature
\* columns, as build_tree calls them (Tree.py:80, 89).  Here tree is
\* <<the PointSet>>, phase is "new" before any call, "searched" once
\* get_best_gain returned, "reported" once get_best_threshold returned and
\* "failed" once either raised, and last.ret is what the latest call returned.

\* the largest PointSet searched
GainPoints == MaxPoints + 1

\* two feature columns: of the same kind, continuous before boolean,
\* boolean before categorical
GainTypeVectors == {<<FT_BOOLEAN, FT_BOOLEAN>>, <<FT_REAL, FT_BOOLEAN>>,
                    <<FT_BOOLEAN, FT_CLASSES>>}

\* a PointSet of up to GainPoints points over one of those type vectors, and
\* the min_split_points the search is run with
InitGain ==
    /\ \E types \in GainTypeVectors :
          \E features \in SeqsUpTo(Rows(types), GainPoints) :
             \E labels \in [1..Len(features) -> BOOLEAN], m \in MinSplits :
                cfg = Config(types, features, labels, 1, m, <<0, 1>>)
    /\ phase = "new"
    /\ tree = <<PointSet(cfg.features, cfg.labels, cfg.types)>>
    /\ last = NoCall
    /\ undo = <<>>

\* the caller's state after get_best_gain with result bg: the tuple
\* (feature index, gain), or (None, None)
Searched(bg) ==
    /\ phase' = IF bg.raised = "" THEN "searched" ELSE "failed"
    /\ tree' = <<bg.points>>
    /\ last' = [NoCall EXCEPT
                  !.op = "get_best_gain",
                  !.ret = IF bg.feature_id = None THEN <<None, None>>
                          ELSE <<bg.feature_id, bg.gain>>,
                  !.raised = bg.raised]

\* Tree.py:80  self.points.get_best_gain(min_split_points=self.min_split_points)
GetBestGain ==
    /\ phase = "new"
    /\ Searched(get_best_gain(tree[1], cfg.min_split_points))
    /\ UNCHANGED <<cfg, undo>>

\* the caller's state after get_best_threshold with result bt
Reported(bt) ==
    /\ phase' = IF bt.raised = "" THEN "reported" ELSE "failed"
    /\ last' = [NoCall EXCEPT !.op = "get_best_threshold", !.ret = bt.value,
                              !.raised = bt.raised]

\* Tree.py:89  self.points.get_best_threshold(), also before any search
GetBestThreshold ==
    /\ phase \in {"new", "searched"}
    /\ Reported(get_best_threshold(tree[1]))
    /\ UNCHANGED <<cfg, tree, undo>>

NextGain == GetBestGain \/ GetBestThreshold

SpecGain == InitGain /\ [][NextGain]_vars

\* ------------------------------------------------------------ properties
\* the tree before the latest call
Pre == last.pre[1]

\* the latest call is an insert or a delete that returned
Modified == phase = "built" /\ last.op \in {"add", "del"}

\* get_best_gain on the constructor's collection reports a usable split:
\* strictly positive gain, both sides of at least min_split_points points
HasSplit(c) ==
    get_best_gain(PointSet(c.features, c.labels, c.types),
                  c.min_split_points).feature_id # None

\* count of true labels >= half the collection size
TrueIsMajority(labels) ==
    2 * Cardinality({k \in 1..Len(labels) : labels[k]}) >= Len(labels)

\* the collections of a node and of every node below it
RECURSIVE Collections(_)
Collections(node) ==
    <<node.points.features, node.points.labels,
      [i \in 1..Len(node.children) |-> Collections(node.children[i])]>>

\* leaf or internal, the split and the collection of a node and of every
\* node below it
RECURSIVE Shape(_)
Shape(node) ==
    [leaf |-> node.h = 0, feature_id |-> node.feature_id,
     feature_threshold |-> node.feature_threshold,
     feature_split |-> node.feature_split,
     features |-> node.points.features, labels |-> node.points.labels,
     children |-> [i \in 1..Len(node.children) |-> Shape(node.children[i])]]

\* the smallest collection size among a node and the nodes below it
RECURSIVE EveryNodeHolds(_, _)
EveryNodeHolds(node, m) ==
    /\ Len(node.points.features) >= m
    /\ \A i \in 1..Len(node.children) : EveryNodeHolds(node.children[i], m)

\* C1: constructing a node with depth_budget >= 1 whose collection has a
\* usable split returns without error an internal node: the split is stored
\* and both children exist, built with depth_budget - 1 and the same
\* min_split_points and beta.
C1_SplitBuildsInternalNode ==
    (phase # "new" /\ cfg.h >= 1 /\ HasSplit(cfg)) =>
        /\ phase = "built"
        /\ Root.h = cfg.h
        /\ Root.feature_id # None
        /\ Len(Root.children) = 2
        /\ \A i \in 1..2 :
              /\ Root.children[i].h \in {0, cfg.h - 1}
              /\ Root.children[i].min_split_points = cfg.min_split_points
              /\ Root.children[i].beta = cfg.beta

FreshIs(fresh, node) == fresh.raised = "" /\ Shape(fresh.self) = Shape(node)

\* C3: with beta = 0, after any insert or delete on the root, the tree is
\* the tree a fresh construction builds from the root's current collection
\* with the configured height, min_split_points and beta.
C3_BetaZeroTreeIsFreshBuild ==
    (Modified /\ cfg.beta[1] = 0) =>
        FreshIs(Tree(Root.points.features, Root.points.labels, cfg.types,
                     cfg.h, cfg.min_split_points, cfg.beta), Root)

\* an insert has returned, with beta = 0, on a tree configured with height 1
\* and a point whose label the tree does not hold yet
C3_Witness ==
    /\ Modified /\ cfg.beta[1] = 0
    /\ last.op = "add"
    /\ cfg.h >= 1
    /\ Len(cfg.features) >= 1
    /\ \A k \in 1..Len(cfg.labels) : cfg.labels[k] # last.label

C5_InsertThenDeleteRestores ==
    (phase = "built" /\ undo # <<>> /\ ~undo[1].rebuilt /\ ~last.rebuilt) =>
        Collections(Root) = Collections(undo[1].pre)

\* such a pair of calls has returned on a tree that already held the feature
\* vector, under the other label
C5_Witness ==
    /\ phase = "built" /\ undo # <<>> /\ ~undo[1].rebuilt /\ ~last.rebuilt
    /\ FirstMatch(undo[1].pre.points, last.features) > 0
    /\ undo[1].pre.points.labels[FirstMatch(undo[1].pre.points, last.features)]
          # last.label

\* C6: a delete at a node that holds no point with that feature vector is a
\* no-op there: no error, the node (collection, counter, split, children)
\* is unchanged, nothing is rebuilt and the call does not recurse.
C6_DeleteMissIsNoOp ==
    (phase \in {"built", "crashed"} /\ last.op = "del"
        /\ FirstMatch(Pre.points, last.features) = 0) =>
        /\ last.raised = ""
        /\ Root = Pre
        /\ ~last.rebuilt
        /\ ~last.recursed

\* C7: a construction with a negative height, min_split_points < 1 or a
\* number of labels that differs from the number of points fails, and no
\* tree is built from such input (whatever the class of the error and
\* however early it is raised).
C7_BadConfigFails ==
    (phase # "new" /\ ~WellFormed(cfg)) =>
        /\ phase = "failed"
        /\ tree = <<>>
        /\ last.raised # ""

\* C8: a tree built with height 0 is a single leaf, and decide returns for
\* every point true iff the true labels are at least half of the collection.
C8_HeightZeroIsMajorityLeaf ==
    (phase = "built" /\ cfg.h = 0) =>
        /\ Root.h = 0
        /\ Root.children = <<>>
        /\ Root.points.labels = cfg.labels
        /\ \A q \in Rows(cfg.types) : decide(Root, q) = TrueIsMajority(cfg.labels)
        /\ last.op = "decide" => last.ret = TrueIsMajority(cfg.labels)

\* decide has answered true on a height-0 tree whose labels are tied
C8_Witness ==
    /\ phase = "built" /\ cfg.h = 0
    /\ last.op = "decide" /\ last.ret
    /\ Len(cfg.labels) = 2 /\ cfg.labels[1] # cfg.labels[2]

\* C10: a tree constructed from at least min_split_points points keeps at
\* least min_split_points points in every node, whatever is inserted and
\* deleted.
C10_EveryNodeKeepsMinSplitPoints ==
    (phase = "built" /\ Len(cfg.features) >= cfg.min_split_points) =>
        EveryNodeHolds(Root, cfg.min_split_points)

\* a delete of a stored point has returned on a tree constructed from
\* exactly min_split_points points
C10_Witness ==
    /\ Modified /\ last.op = "del"
    /\ Len(cfg.features) = cfg.min_split_points
    /\ FirstMatch(Pre.points, last.features) > 0

\* the gain of every candidate of the constructor's collection, in the order
\* get_best_gain enumerates them
GainsOfConfig(c) ==
    GainsOf(PointSet(c.features, c.labels, c.types),
            Candidates(PointSet(c.features, c.labels, c.types), 1),
            c.min_split_points)

\* candidate k has a defined gini_split and no candidate has a larger gain
Maximal(G, k) ==
    /\ ~G[k].none
    /\ \A j \in 1..Len(G) : ~G[j].none => ~RatGt(G[j].gain, G[k].gain)

\* candidate k is the first of the maximal ones in enumeration order
Earliest(G, k) == Maximal(G, k) /\ \A j \in 1..(k - 1) : ~Maximal(G, j)

\* some candidate has a strictly positive gain
Positive(G) == \E k \in 1..Len(G) : ~G[k].none /\ RatGt(G[k].gain, RatZero)

\* the candidates come by ascending feature index, then ascending value
InOrder(G) ==
    \A i, j \in 1..Len(G) :
        i < j => \/ G[i].p < G[j].p
                 \/ G[i].p = G[j].p /\ G[i].v < G[j].v

\* the latest call answered as the claim says, G the gains of the candidates
BestSplitIs(G) ==
    /\ InOrder(G)
    /\ last.op = "get_best_gain" =>
          /\ last.raised = ""
          /\ Positive(G) =>
                \E k \in 1..Len(G) :
                    /\ Earliest(G, k)
                    /\ last.ret[1] = G[k].p - 1
                    /\ RatEq(last.ret[2], G[k].gain)
          /\ ~Positive(G) => last.ret = <<None, None>>
    /\ phase = "reported" =>
          /\ Positive(G)
          /\ \E k \in 1..Len(G) :
                /\ Earliest(G, k)
                /\ last.ret = G[k].v
                /\ tree[1].split_feature = G[k].p - 1

\* C11: get_best_gain returns the feature index and the gain of the candidate
\* of maximum gain among those whose gini_split is defined, the earliest one
\* in enumeration order (features ascending, values ascending) when several
\* attain the maximum, and that candidate's value is what get_best_threshold
\* then reports; when no candidate has a strictly positive gain it reports no
\* usable split (None, None), for every collection.
C11_BestSplitIsEarliestMaximum ==
    phase # "new" => BestSplitIs(GainsOfConfig(cfg))

\* the same on the collections that hold at least one point
BestSplitOfPoints ==
    (phase # "new" /\ Len(cfg.features) > 0) => BestSplitIs(GainsOfConfig(cfg))

\* get_best_threshold has reported the value of a winner that a later
\* candidate ties with
TiedWinnerReported ==
    /\ phase = "reported"
    /\ \E k, j \in 1..Len(GainsOfConfig(cfg)) :
          /\ k < j
          /\ Earliest(GainsOfConfig(cfg), k)
          /\ Maximal(GainsOfConfig(cfg), j)

\* counter < beta * len(features) at a node and at every node below it
RECURSIVE EveryCounterBelow(_)
EveryCounterBelow(node) ==
    /\ node.counter * node.beta[2] < node.beta[1] * Len(node.points.features)
    /\ \A i \in 1..Len(node.children) : EveryCounterBelow(node.children[i])

\* the same, a node that holds no point having counter = 0 instead
RECURSIVE EveryCounterSettled(_)
EveryCounterSettled(node) ==
    /\ IF Len(node.points.features) = 0 THEN node.counter = 0
       ELSE node.counter * node.beta[2] < node.beta[1] * Len(node.points.features)
    /\ \A i \in 1..Len(node.children) : EveryCounterSettled(node.children[i])

\* C12 as claimed: with beta > 0, whenever an insert or a delete on the root
\* returns, every node has counter < beta * (size of its collection), after
\* any sequence of inserts and deletes, deletes of absent points included.
C12_EveryCounterBelowThreshold ==
    (Modified /\ cfg.beta[1] > 0) => EveryCounterBelow(Root)

\* C12 as amended: with beta > 0, whenever an insert or a delete on the root
\* returns, every node that holds at least one point has counter < beta *
\* (size of its collection), and every node that holds no point, where the
\* threshold beta * 0 is met by any counter, has been rebuilt and has
\* counter = 0.
C12_NoRebuildLeftPending ==
    (Modified /\ cfg.beta[1] > 0) =>
        /\ EveryCounterSettled(Root)
        /\ Len(Root.points.features) = 0 => last.rebuilt

\* with beta > 0, the delete of a point the tree does not hold has brought
\* the counter of a root that holds points to the threshold, and returned
C12_Witness ==
    /\ Modified /\ cfg.beta[1] > 0
    /\ last.op = "del"
    /\ FirstMatch(Pre.points, last.features) = 0
    /\ Len(Pre.points.features) > 0
    /\ Pre.counter > 0
    /\ last.rebuilt

====
